---- MODULE Spec2Model ----
(***************************************************************************)
(* PBFT consensus round engine of scripts/pbft-runner.js: the validator    *)
(* registry (PBFTValidator), the three-phase round (PBFTConsensus          *)
(* .runConsensus and its phases), the view change, and the measurement     *)
(* logs, driven by runPBFTConsensus one work item at a time.               *)
(*                                                                         *)
(* One action is one block of code between two suspension points (await    *)
(* sleep(..)): JavaScript runs such a block to completion.  Math.random()  *)
(* is a nondeterministic draw; Date.now() differences are the time slept,  *)
(* each timer firing timerLag milliseconds late.  Timestamps are not       *)
(* modelled.                                                               *)
(***************************************************************************)
EXTENDS Integers, Sequences, FiniteSets, TLC

\* ---- bounds of the exploration ----
MaxValidators == 4
MaxByzantine == 2
MaxRounds == 2
MaxTimerLag == 1
\* faults drawn by chance in one run (the sum of the failures counters)
MaxFaults == 3

\* ---- constants of the program ----
NUM_VALIDATORS == 4
PRE_PREPARE_PHASE_TIME == 200
PREPARE_PHASE_TIME == 300
COMMIT_PHASE_TIME == 300
VIEW_CHANGE_TIMEOUT == 2000
BYZANTINE_VALIDATOR_COUNT == 1
\* 0.3, as a percentage
BYZANTINE_FAILURE_PROBABILITY == 30
BYZANTINE_FAILURE_TYPES == <<"crash", "malicious", "delayed">>
PRE_PREPARE_MESSAGE_SIZE == 1024
VOTE_MESSAGE_SIZE == 512
\* JavaScript null in a numeric field (participantCount = null, an unset local)
NULL == -1

\* addresses of the signers after the regulator (hardhat derives 10 accounts)
Addresses == <<"0xa1", "0xa2", "0xa3", "0xa4", "0xa5", "0xa6", "0xa7", "0xa8", "0xa9">>

\* The failure probabilities explored: never, the configured 0.3, always.
FailureProbabilities == {0, BYZANTINE_FAILURE_PROBABILITY, 100}

VARIABLES
    validators,            \* PBFTConsensus.validators: sequence of PBFTValidator
    currentView,           \* PBFTConsensus.currentView
    f,                     \* PBFTConsensus.f
    blockHeight,           \* PBFTConsensus.blockHeight
    viewChangeInProgress,  \* PBFTConsensus.viewChangeInProgress
    failureProbability,    \* configured failure probability, in percent
    timerLag,              \* how late a timer fires, in ms
    byzantineEvents,       \* measurements.byzantineEvents
    networkMessages,       \* measurements.networkMessages
    consensusPhases,       \* measurements.consensusPhases
    viewChanges,           \* measurements.viewChanges
    finalityTimes,         \* measurements.finalityTimes
    consensusState,        \* measurements.consensusState
    calls,                 \* the runConsensus calls made so far: locals and position
    faultConsults,         \* trace of the exhibitsByzantineFailure calls
    driver                 \* runPBFTConsensus: position, accounts, error thrown

vars == <<validators, currentView, f, blockHeight, viewChangeInProgress,
          failureProbability, timerLag, byzantineEvents, networkMessages,
          consensusPhases, viewChanges, finalityTimes, consensusState, calls,
          faultConsults, driver>>

N == Len(validators)

\* ---- PBFTValidator ----

NewValidator(address, index, isByzantine, type) ==
    [address |-> address, index |-> index, isByzantine |-> isByzantine,
     byzantineType |-> IF isByzantine THEN type ELSE "null",
     preparesSent |-> 0, preparesReceived |-> 0,
     commitsSent |-> 0, commitsReceived |-> 0,
     blocksProposed |-> 0,
     viewChangesSent |-> 0, viewChangesReceived |-> 0,
     failures |-> 0]

\* The outcomes of  Math.random() < p  for p given in percent.
RandomBelow(p) == {b \in BOOLEAN : (b => p > 0) /\ (~b => p < 100)}

\* a fault model that lets every validator fail
CanFailAnyone(v) == TRUE

\* Whether exhibitsByzantineFailure gets as far as its draw (line 90)
CanFail(v) == v.isByzantine

\* a crash that lasts: a validator of type crash that has failed once is
\* down in every later evaluation, without a new draw
ExhibitsByzantineFailureStaysDown(v, failsNow) ==
    IF ~CanFail(v)
    THEN [validator |-> v, failure |-> "false"]
    ELSE IF v.byzantineType = "crash" /\ v.failures > 0
         THEN [validator |-> v, failure |-> "crash"]
         ELSE IF failsNow
              THEN [validator |-> [v EXCEPT !.failures = @ + 1], failure |-> v.byzantineType]
              ELSE [validator |-> v, failure |-> "false"]

\* a fault that costs the validator its Byzantine profile
ExhibitsByzantineFailureReformed(v, failsNow) ==
    IF ~CanFail(v)
    THEN [validator |-> v, failure |-> "false"]
    ELSE IF failsNow
         THEN [validator |-> [v EXCEPT !.failures = @ + 1, !.isByzantine = FALSE,
                                       !.byzantineType = "null"],
               failure |-> v.byzantineType]
         ELSE [validator |-> v, failure |-> "false"]

\* exhibitsByzantineFailure with the draw failsNow: the validator afterwards
\* and the value returned ("false" for false).
ExhibitsByzantineFailure(v, failsNow) ==
    IF ~CanFail(v)
    THEN [validator |-> v, failure |-> "false"]
    ELSE IF failsNow
         THEN [validator |-> [v EXCEPT !.failures = @ + 1], failure |-> v.byzantineType]
         ELSE [validator |-> v, failure |-> "false"]

\* a prepare credited to the wrong counter
RecordPrepareInverted(v, isIncoming) ==
    IF isIncoming THEN [v EXCEPT !.preparesSent = @ + 1]
    ELSE [v EXCEPT !.preparesReceived = @ + 1]

RecordPrepare(v, isIncoming) ==
    IF isIncoming THEN [v EXCEPT !.preparesReceived = @ + 1]
    ELSE [v EXCEPT !.preparesSent = @ + 1]

\* a commit credited to the wrong counter
RecordCommitInverted(v, isIncoming) ==
    IF isIncoming THEN [v EXCEPT !.commitsSent = @ + 1]
    ELSE [v EXCEPT !.commitsReceived = @ + 1]

RecordCommit(v, isIncoming) ==
    IF isIncoming THEN [v EXCEPT !.commitsReceived = @ + 1]
    ELSE [v EXCEPT !.commitsSent = @ + 1]

\* a proposal credited twice
RecordProposalTwice(v) == [v EXCEPT !.blocksProposed = @ + 2]

RecordProposal(v) == [v EXCEPT !.blocksProposed = @ + 1]

\* a view-change message credited to the wrong counter
RecordViewChangeInverted(v, isIncoming) ==
    IF isIncoming THEN [v EXCEPT !.viewChangesSent = @ + 1]
    ELSE [v EXCEPT !.viewChangesReceived = @ + 1]

RecordViewChange(v, isIncoming) ==
    IF isIncoming THEN [v EXCEPT !.viewChangesReceived = @ + 1]
    ELSE [v EXCEPT !.viewChangesSent = @ + 1]

\* ---- PBFTConsensus: construction ----

SetupValidators(n, byzantineIndices, types) ==
    [i \in 1..n |->
        NewValidator(Addresses[i], i - 1, (i - 1) \in byzantineIndices,
                     IF (i - 1) \in byzantineIndices THEN types[i - 1] ELSE "null")]

\* a bound of floor(n/3) instead of floor((n-1)/3)
MaxTolerableFailuresHigh(n) == n \div 3

MaxTolerableFailures(n) == (n - 1) \div 3

\* the primary taken one position too far
PrimaryIndexNext(vs, view) == ((view + 1) % Len(vs)) + 1

\* 1-based position of the primary of a view among vs
PrimaryIndex(vs, view) == (view % Len(vs)) + 1

GetPrimary(vs, view) == vs[PrimaryIndex(vs, view)]

\* a threshold of 2f instead of 2f+1
RequiredMessagesLow(faults) == 2 * faults

RequiredMessages(faults) == 2 * faults + 1

\* a height that skips a value
NextHeightSkips(height) == height + 2

\* this.blockHeight++ (line 194)
NextHeight(height) == height + 1

\* a view change that skips a view, and one that keeps the view
NextViewSkips(view) == view + 2

NextViewStays(view) == view

\* this.currentView++ (line 450)
NextView(view) == view + 1

\* a primary that aborts on any fault
PrimaryAbortsOnAnyFault(failure) == failure # "false"

\* a crashed primary that goes on to propose
PrimaryAbortsNever(failure) == FALSE

\* the primary's failure that aborts the pre-prepare phase (line 274)
PrimaryAborts(failure) == failure = "crash"

\* ---- measurement records ----

RecordByzantineEvent(v, height, view, phase, failureType) ==
    [validator |-> v.address, validatorIndex |-> v.index, blockHeight |-> height,
     view |-> view, phase |-> phase, failureType |-> failureType]

\* a network record whose total is the size of one message
RecordNetworkMessagesOneMessage(height, view, phase, messageCount, messageSize) ==
    [blockHeight |-> height, view |-> view, phase |-> phase,
     messageCount |-> messageCount, messageSize |-> messageSize,
     totalBytes |-> messageSize]

RecordNetworkMessages(height, view, phase, messageCount, messageSize) ==
    [blockHeight |-> height, view |-> view, phase |-> phase,
     messageCount |-> messageCount, messageSize |-> messageSize,
     totalBytes |-> messageCount * messageSize]

\* a phase record with the message count and the participant count exchanged
RecordPhaseCompletionSwapped(height, view, phase, duration, messageCount, participantCount, byzCount) ==
    [blockHeight |-> height, view |-> view, phase |-> phase, duration |-> duration,
     messageCount |-> participantCount, participantCount |-> messageCount,
     byzantineCount |-> byzCount]

RecordPhaseCompletion(height, view, phase, duration, messageCount, participantCount, byzCount) ==
    [blockHeight |-> height, view |-> view, phase |-> phase, duration |-> duration,
     messageCount |-> messageCount, participantCount |-> participantCount,
     byzantineCount |-> byzCount]

ValidatorStates(vs) ==
    [i \in 1..Len(vs) |->
        [address |-> vs[i].address, index |-> vs[i].index,
         isByzantine |-> vs[i].isByzantine, byzantineType |-> vs[i].byzantineType,
         preparesSent |-> vs[i].preparesSent, preparesReceived |-> vs[i].preparesReceived,
         commitsSent |-> vs[i].commitsSent, commitsReceived |-> vs[i].commitsReceived,
         blocksProposed |-> vs[i].blocksProposed, failures |-> vs[i].failures]]

NoResult == [null |-> TRUE]

RecordConsensusState(eventType, vs, height, view, faults, inProgress, result) ==
    [eventType |-> eventType, blockHeight |-> height, view |-> view,
     primary |-> IF vs = << >> THEN "undefined" ELSE GetPrimary(vs, view).address,
     f |-> faults, viewChangeInProgress |-> inProgress,
     validatorStates |-> ValidatorStates(vs), result |-> result]

FaultConsult(v, height, view, phase) ==
    [validatorIndex |-> v.index, blockHeight |-> height, view |-> view, phase |-> phase]

\* ---- timers and messages ----

\* time that passes in  await sleep(ms)
Sleep(ms) == ms + timerLag

PrimaryCrashedMessage == "Primary crashed during pre-prepare phase"

InsufficientMessage(kind, count, required) ==
    "Insufficient " \o kind \o " messages: " \o ToString(count) \o "/" \o ToString(required)

\* ---- the loops over the validators ----

\* total of the failures counters of vs[1..n]
RECURSIVE SumFailures(_, _)
SumFailures(vs, n) == IF n = 0 THEN 0 ELSE vs[n].failures + SumFailures(vs, n - 1)

\* Whether `more` further faults may be drawn by chance: the failures
\* counters are capped at MaxFaults in total, unless the configured
\* probability forces every draw.
WithinFaultBudget(vs, more) ==
    failureProbability = 100 \/ SumFailures(vs, Len(vs)) + more <= MaxFaults

\* The draws of exhibitsByzantineFailure for validator i: none (FALSE) for a
\* validator that returns before drawing.
ValidatorDraws(vs, i) ==
    IF CanFail(vs[i])
    THEN {b \in RandomBelow(failureProbability) : b => WithinFaultBudget(vs, 1)}
    ELSE {FALSE}

\* The draws of one loop: one per validator, none (FALSE) for a validator that
\* is skipped or that returns before drawing.
RandomDraws(vs, skipped) ==
    {d \in [1..Len(vs) -> BOOLEAN] :
        /\ \A i \in 1..Len(vs) :
              d[i] \in (IF i \in skipped \/ ~CanFail(vs[i])
                        THEN {FALSE} ELSE RandomBelow(failureProbability))
        /\ WithinFaultBudget(vs, Cardinality({i \in 1..Len(vs) : d[i]}))}

\* a prepare phase that evaluates the primary too
PrepareVotersAll(vs, view) == 1..Len(vs)

\* the validators the prepare loop evaluates: it skips the primary
\* (if (validator === this.getPrimary()) continue, line 320)
PrepareVoters(vs, view) == (1..Len(vs)) \ {PrimaryIndex(vs, view)}

\* runPreparePhase, lines 318-346
PrepareLoop(vs, height, view, draws) ==
    LET out(i) == ExhibitsByzantineFailure(vs[i], draws[i])
        others == PrepareVoters(vs, view)
    IN  [validators |->
            [i \in 1..Len(vs) |->
                IF i \notin others THEN vs[i]
                ELSE IF out(i).failure = "crash" THEN out(i).validator
                ELSE RecordPrepare(out(i).validator, FALSE)],
         count |-> Cardinality({i \in others : out(i).failure # "crash"}),
         byzantineCount |-> Cardinality({i \in others : out(i).failure # "false"}),
         events |->
            SelectSeq([i \in 1..Len(vs) |->
                        [skip |-> i \notin others \/ out(i).failure = "false",
                         event |-> RecordByzantineEvent(vs[i], height, view, "prepare", out(i).failure)]],
                     LAMBDA r : ~r.skip),
         consults |->
            SelectSeq([i \in 1..Len(vs) |->
                        [skip |-> i \notin others,
                         event |-> FaultConsult(vs[i], height, view, "prepare")]],
                     LAMBDA r : ~r.skip)]

\* a commit phase that leaves the primary out, as the prepare phase does
CommitVotersOthers(vs, view) == (1..Len(vs)) \ {PrimaryIndex(vs, view)}

\* the validators the commit loop evaluates: all of them, the primary
\* included (for (const validator of this.validators), line 385)
CommitVoters(vs, view) == 1..Len(vs)

\* runCommitPhase, lines 385-410
CommitLoop(vs, height, view, draws) ==
    LET out(i) == ExhibitsByzantineFailure(vs[i], draws[i])
        all == CommitVoters(vs, view)
    IN  [validators |->
            [i \in 1..Len(vs) |->
                IF i \notin all THEN vs[i]
                ELSE IF out(i).failure = "crash" THEN out(i).validator
                ELSE RecordCommit(out(i).validator, FALSE)],
         count |-> Cardinality({i \in all : out(i).failure # "crash"}),
         byzantineCount |-> Cardinality({i \in all : out(i).failure # "false"}),
         events |->
            SelectSeq([i \in 1..Len(vs) |->
                        [skip |-> i \notin all \/ out(i).failure = "false",
                         event |-> RecordByzantineEvent(vs[i], height, view, "commit", out(i).failure)]],
                     LAMBDA r : ~r.skip),
         consults |->
            SelectSeq([i \in 1..Len(vs) |->
                        [skip |-> i \notin all,
                         event |-> FaultConsult(vs[i], height, view, "commit")]],
                     LAMBDA r : ~r.skip)]

\* initiateViewChange, lines 456-467: no byzantine event is recorded here
ViewChangeLoop(vs, height, view, draws) ==
    LET out(i) == ExhibitsByzantineFailure(vs[i], draws[i])
        all == 1..Len(vs)
    IN  [validators |->
            [i \in all |->
                IF out(i).failure = "crash" THEN out(i).validator
                ELSE RecordViewChange(out(i).validator, FALSE)],
         count |-> Cardinality({i \in all : out(i).failure # "crash"}),
         consults |->
            [i \in all |-> [skip |-> FALSE,
                            event |-> FaultConsult(vs[i], height, view, "view-change")]]]

Events(records) == [i \in 1..Len(records) |-> records[i].event]

\* ---- construction (new PBFTConsensus(validatorAccounts)) ----

FailureTypes == {BYZANTINE_FAILURE_TYPES[k] : k \in DOMAIN BYZANTINE_FAILURE_TYPES}

\* new PBFTConsensus(validatorAccounts), lines 152-163, for n accounts, the
\* Byzantine indices and types that setupValidators and the PBFTValidator
\* constructor draw, the failure probability p and the timer lag.
Construct(n, byzantineIndices, types, p, lag) ==
    /\ validators = SetupValidators(n, byzantineIndices, types)
    /\ currentView = 0
    /\ f = MaxTolerableFailures(n)
    /\ blockHeight = 0
    /\ viewChangeInProgress = FALSE
    /\ failureProbability = p
    /\ timerLag = lag
    /\ byzantineEvents = << >>
    /\ networkMessages = << >>
    /\ consensusPhases = << >>
    /\ viewChanges = << >>
    /\ finalityTimes = << >>
    /\ consensusState =
          << RecordConsensusState("initialization",
                SetupValidators(n, byzantineIndices, types), 0, 0,
                MaxTolerableFailures(n), FALSE, NoResult) >>
    /\ calls = << >>
    /\ faultConsults = << >>
    /\ driver = [pc |-> "running", numValidators |-> n, allAccounts |-> n, error |-> ""]

\* a registry whose validators are all Byzantine of type crash, except the
\* first primary
AllButPrimaryCrash(n, byzantineIndices, types) ==
    /\ byzantineIndices = 1..(n - 1)
    /\ \A i \in byzantineIndices : types[i] = "crash"

\* Every registry of up to MaxValidators validators with up to MaxByzantine
\* Byzantine ones is explored, and the registries in which every validator
\* but the first primary crashes; the script itself runs ScriptConfiguration.
Init ==
    \E n \in 1..MaxValidators :
    \E byzantineIndices \in SUBSET (0..(n - 1)) :
    \E types \in [byzantineIndices -> FailureTypes] :
    \E p \in FailureProbabilities :
    \E lag \in 0..MaxTimerLag :
        /\ \/ Cardinality(byzantineIndices) <= MaxByzantine
           \/ AllButPrimaryCrash(n, byzantineIndices, types)
        /\ Construct(n, byzantineIndices, types, p, lag)

\* the configuration of the script: lines 19, 31 and 37
ScriptConfiguration ==
    /\ N = NUM_VALIDATORS
    /\ Cardinality({i \in 1..N : validators[i].isByzantine}) = BYZANTINE_VALIDATOR_COUNT
    /\ failureProbability = BYZANTINE_FAILURE_PROBABILITY

\* ---- the locals of one runConsensus call ----

NoTimings == [prePrepare |-> NULL, prepare |-> NULL, commit |-> NULL]

NewCall(txHash) ==
    [pc |-> "start", txHash |-> txHash, phaseTimings |-> NoTimings,
     phaseElapsed |-> 0, prepareCount |-> NULL, commitCount |-> NULL,
     byzantineCount |-> NULL, viewChangeMsgCount |-> NULL, oldView |-> NULL,
     error |-> "", consensusResult |-> NoResult]

SetCall(c, call) ==
    IF c = Len(calls) + 1 THEN Append(calls, call) ELSE [calls EXCEPT ![c] = call]

SuccessResult(height, view, vs, timings, txHash) ==
    [success |-> TRUE, blockHeight |-> height, view |-> view,
     primary |-> GetPrimary(vs, view).address, phaseTimings |-> timings,
     totalTime |-> timings.prePrepare + timings.prepare + timings.commit,
     txHash |-> txHash]

FailureResult(height, view, message) ==
    [success |-> FALSE, blockHeight |-> height, view |-> view, error |-> message]

\* a failed round that starts a view change whatever is in progress
StartsViewChangeAlways(inProgress) == TRUE

\* Whether a failed round starts a view change:
\* if (!this.viewChangeInProgress), lines 238 and 441
StartsViewChange(inProgress) == ~inProgress

\* runConsensus, lines 235-241, with initiateViewChange up to its sleep
\* (lines 440-470): the catch of an error thrown by a phase.  vs, events and
\* consults are the registry and the logs as the failed phase left them.
Catch(c, call, height, vs, events, consults, message) ==
    IF StartsViewChange(viewChangeInProgress)
    THEN \E draws \in RandomDraws(vs, {}) :
            LET loop == ViewChangeLoop(vs, height, NextView(currentView), draws) IN
            /\ viewChangeInProgress' = TRUE
            /\ currentView' = NextView(currentView)
            /\ validators' = loop.validators
            /\ byzantineEvents' = events
            /\ faultConsults' = consults \o Events(loop.consults)
            /\ calls' = SetCall(c, [call EXCEPT !.pc = "viewChangeSleep",
                                                !.error = message,
                                                !.oldView = currentView,
                                                !.viewChangeMsgCount = loop.count])
            /\ UNCHANGED consensusState
    ELSE LET result == FailureResult(height, currentView, message) IN
            /\ calls' = SetCall(c, [call EXCEPT !.pc = "returned",
                                                !.error = message,
                                                !.consensusResult = result])
            /\ consensusState' = Append(consensusState,
                    RecordConsensusState("consensus_complete", vs, height,
                        currentView, f, viewChangeInProgress, result))
            /\ validators' = vs
            /\ byzantineEvents' = events
            /\ faultConsults' = consults
            /\ UNCHANGED <<currentView, viewChangeInProgress>>

\* runPrePreparePhase, lines 286-294: the primary proposes and broadcasts.
Propose(c, call, height, vs, events, consults) ==
    /\ validators' = [vs EXCEPT ![PrimaryIndex(vs, currentView)] = RecordProposal(@)]
    /\ networkMessages' = Append(networkMessages,
            RecordNetworkMessages(height, currentView, "pre-prepare",
                                  Len(vs), PRE_PREPARE_MESSAGE_SIZE))
    /\ byzantineEvents' = events
    /\ faultConsults' = consults
    /\ calls' = SetCall(c, [call EXCEPT !.pc = "prePrepareSleep"])
    /\ UNCHANGED <<currentView, viewChangeInProgress, consensusState>>

\* a driver that does not await its calls
KeepsDriverWaitingNever(call) == FALSE

\* Whether the driver is still held by a call: every call is awaited and its
\* result taken before the loop goes on (await runConsensus, line 660).
KeepsDriverWaiting(call) == call.pc # "done"

\* a driver that gives up at the first failed round
StopsDriverOnFailure(result) == ~result.success

\* Whether the driver stops at a result: it only logs it and pushes the
\* finality time of a success (lines 659-671), and goes on to the next item.
StopsDriver(result) == FALSE

\* runConsensus as it is entered, lines 193-212, and runPrePreparePhase up
\* to its first sleep (lines 261-284).
EnterRunConsensus ==
    /\ blockHeight' = NextHeight(blockHeight)
    /\ \E failsNow \in ValidatorDraws(validators, PrimaryIndex(validators, currentView)) :
        LET c == Len(calls) + 1
            call == NewCall(c)
            p == PrimaryIndex(validators, currentView)
            out == ExhibitsByzantineFailure(validators[p], failsNow)
            vs == [validators EXCEPT ![p] = out.validator]
            events == IF out.failure # "false"
                      THEN Append(byzantineEvents,
                             RecordByzantineEvent(validators[p], NextHeight(blockHeight),
                                 currentView, "pre-prepare", out.failure))
                      ELSE byzantineEvents
            consults == Append(faultConsults,
                           FaultConsult(validators[p], NextHeight(blockHeight), currentView, "pre-prepare"))
        IN  IF PrimaryAborts(out.failure)
            THEN /\ Catch(c, call, NextHeight(blockHeight), vs, events, consults, PrimaryCrashedMessage)
                 /\ UNCHANGED networkMessages
            ELSE IF out.failure = "delayed"
            THEN /\ validators' = vs
                 /\ byzantineEvents' = events
                 /\ faultConsults' = consults
                 /\ calls' = SetCall(c, [call EXCEPT !.pc = "prePrepareDelay"])
                 /\ UNCHANGED <<currentView, viewChangeInProgress, consensusState,
                                networkMessages>>
            ELSE Propose(c, call, NextHeight(blockHeight), vs, events, consults)
    /\ UNCHANGED <<driver, f, failureProbability, timerLag, consensusPhases, viewChanges,
                   finalityTimes>>

\* The driver submits the next work item, every earlier call awaited.
RunConsensus ==
    /\ driver.pc = "running"
    /\ \A c \in DOMAIN calls :
          ~KeepsDriverWaiting(calls[c]) /\ ~StopsDriver(calls[c].consensusResult)
    /\ blockHeight < MaxRounds
    /\ EnterRunConsensus

\* The delay of a delayed primary is over: lines 282-294.
PrePrepareDelayElapsed(c) ==
    /\ calls[c].pc = "prePrepareDelay"
    /\ Propose(c, [calls[c] EXCEPT !.phaseElapsed = @ + Sleep(VIEW_CHANGE_TIMEOUT \div 2)],
               blockHeight, validators, byzantineEvents, faultConsults)
    /\ UNCHANGED <<driver, f, blockHeight, failureProbability, timerLag, consensusPhases,
                   viewChanges, finalityTimes>>

\* The pre-prepare sleep is over: lines 296-303, then runPreparePhase up to
\* its sleep (lines 309-349).
PrePrepareSleepElapsed(c) ==
    /\ calls[c].pc = "prePrepareSleep"
    /\ LET phaseDuration == calls[c].phaseElapsed + Sleep(PRE_PREPARE_PHASE_TIME) IN
       \E draws \in RandomDraws(validators, {PrimaryIndex(validators, currentView)}) :
          LET loop == PrepareLoop(validators, blockHeight, currentView, draws) IN
          /\ consensusPhases' = Append(consensusPhases,
                RecordPhaseCompletion(blockHeight, currentView, "pre-prepare",
                                      phaseDuration, N, NULL, 0))
          /\ validators' = loop.validators
          /\ byzantineEvents' = byzantineEvents \o Events(loop.events)
          /\ faultConsults' = faultConsults \o Events(loop.consults)
          /\ calls' = [calls EXCEPT ![c] =
                [@ EXCEPT !.pc = "prepareSleep",
                          !.phaseTimings.prePrepare = phaseDuration,
                          !.phaseElapsed = 0,
                          !.prepareCount = loop.count,
                          !.byzantineCount = loop.byzantineCount]]
    /\ UNCHANGED <<driver, currentView, f, blockHeight, viewChangeInProgress,
                   failureProbability, timerLag, networkMessages, viewChanges,
                   finalityTimes, consensusState>>

\* The prepare sleep is over: lines 351-370, then either the catch or
\* runCommitPhase up to its sleep (lines 376-413).
PrepareSleepElapsed(c) ==
    /\ calls[c].pc = "prepareSleep"
    /\ LET requiredPrepares == RequiredMessages(f)
           prepareCount == calls[c].prepareCount
           messagesSent == prepareCount * N
           phaseDuration == calls[c].phaseElapsed + Sleep(PREPARE_PHASE_TIME)
       IN  IF prepareCount < requiredPrepares
           THEN /\ Catch(c, calls[c], blockHeight, validators, byzantineEvents, faultConsults,
                         InsufficientMessage("prepare", prepareCount, requiredPrepares))
                /\ UNCHANGED <<networkMessages, consensusPhases>>
           ELSE \E draws \in RandomDraws(validators, {}) :
                  LET loop == CommitLoop(validators, blockHeight, currentView, draws) IN
                  /\ networkMessages' = Append(networkMessages,
                        RecordNetworkMessages(blockHeight, currentView, "prepare",
                                              messagesSent, VOTE_MESSAGE_SIZE))
                  /\ consensusPhases' = Append(consensusPhases,
                        RecordPhaseCompletion(blockHeight, currentView, "prepare",
                            phaseDuration, messagesSent, prepareCount,
                            calls[c].byzantineCount))
                  /\ validators' = loop.validators
                  /\ byzantineEvents' = byzantineEvents \o Events(loop.events)
                  /\ faultConsults' = faultConsults \o Events(loop.consults)
                  /\ calls' = [calls EXCEPT ![c] =
                        [@ EXCEPT !.pc = "commitSleep",
                                  !.phaseTimings.prepare = phaseDuration,
                                  !.phaseElapsed = 0,
                                  !.commitCount = loop.count,
                                  !.byzantineCount = loop.byzantineCount]]
                  /\ UNCHANGED <<currentView, viewChangeInProgress, consensusState>>
    /\ UNCHANGED <<driver, f, blockHeight, failureProbability, timerLag, viewChanges,
                   finalityTimes>>

\* The commit sleep is over: lines 415-434, then either the catch or the
\* successful end of runConsensus (lines 220-233, 252-255).
CommitSleepElapsed(c) ==
    /\ calls[c].pc = "commitSleep"
    /\ LET requiredCommits == RequiredMessages(f)
           commitCount == calls[c].commitCount
           messagesSent == commitCount * N
           phaseDuration == calls[c].phaseElapsed + Sleep(COMMIT_PHASE_TIME)
           timings == [calls[c].phaseTimings EXCEPT !.commit = phaseDuration]
           result == SuccessResult(blockHeight, currentView, validators, timings,
                                   calls[c].txHash)
       IN  IF commitCount < requiredCommits
           THEN /\ Catch(c, calls[c], blockHeight, validators, byzantineEvents, faultConsults,
                         InsufficientMessage("commit", commitCount, requiredCommits))
                /\ UNCHANGED <<networkMessages, consensusPhases>>
           ELSE /\ networkMessages' = Append(networkMessages,
                        RecordNetworkMessages(blockHeight, currentView, "commit",
                                              messagesSent, VOTE_MESSAGE_SIZE))
                /\ consensusPhases' = Append(consensusPhases,
                        RecordPhaseCompletion(blockHeight, currentView, "commit",
                            phaseDuration, messagesSent, commitCount,
                            calls[c].byzantineCount))
                /\ calls' = [calls EXCEPT ![c] =
                        [@ EXCEPT !.pc = "returned",
                                  !.phaseTimings = timings,
                                  !.consensusResult = result]]
                /\ consensusState' = Append(consensusState,
                        RecordConsensusState("consensus_complete", validators,
                            blockHeight, currentView, f, viewChangeInProgress, result))
                /\ UNCHANGED <<validators, currentView, viewChangeInProgress,
                               byzantineEvents, faultConsults>>
    /\ UNCHANGED <<driver, f, blockHeight, failureProbability, timerLag, viewChanges,
                   finalityTimes>>

\* The view-change timeout is over: initiateViewChange, lines 472-503, then
\* the failed end of runConsensus (lines 243-255).
ViewChangeTimeoutElapsed(c) ==
    /\ calls[c].pc = "viewChangeSleep"
    /\ LET newPrimary == GetPrimary(validators, currentView)
           viewChangeDuration == Sleep(VIEW_CHANGE_TIMEOUT)
           result == FailureResult(blockHeight, currentView, calls[c].error)
       IN  /\ viewChanges' = Append(viewChanges,
                [oldView |-> calls[c].oldView, newView |-> currentView,
                 reason |-> calls[c].error, duration |-> viewChangeDuration,
                 messageCount |-> calls[c].viewChangeMsgCount * N,
                 newPrimary |-> newPrimary.address])
           /\ viewChangeInProgress' = FALSE
           /\ consensusState' = consensusState \o
                << RecordConsensusState("view_change", validators, blockHeight,
                        currentView, f, FALSE, NoResult),
                   RecordConsensusState("consensus_complete", validators, blockHeight,
                        currentView, f, FALSE, result) >>
           /\ calls' = [calls EXCEPT ![c] =
                    [@ EXCEPT !.pc = "returned", !.consensusResult = result]]
    /\ UNCHANGED <<driver, validators, currentView, f, blockHeight, failureProbability,
                   timerLag, byzantineEvents, networkMessages, consensusPhases,
                   finalityTimes, faultConsults>>

\* a driver that records a finality time for every result
HasFinalityAlways(result) == TRUE

\* if (consensusResult.success), line 663
HasFinality(result) == result.success

\* consensusResult.totalTime: a failure result has none
TotalTime(result) == IF result.success THEN result.totalTime ELSE NULL

\* runPBFTConsensus, lines 659-671: the driver takes the result of the call.
TakeResult(c) ==
    /\ calls[c].pc = "returned"
    /\ calls' = [calls EXCEPT ![c].pc = "done"]
    /\ finalityTimes' =
          IF HasFinality(calls[c].consensusResult)
          THEN Append(finalityTimes,
                  [txHash |-> calls[c].txHash,
                   finalityTime |-> TotalTime(calls[c].consensusResult)])
          ELSE finalityTimes
    /\ UNCHANGED <<driver, validators, currentView, f, blockHeight, viewChangeInProgress,
                   failureProbability, timerLag, byzantineEvents, networkMessages,
                   consensusPhases, viewChanges, consensusState, faultConsults>>

Next ==
    \/ RunConsensus
    \/ \E c \in DOMAIN calls : PrePrepareDelayElapsed(c)
    \/ \E c \in DOMAIN calls : PrePrepareSleepElapsed(c)
    \/ \E c \in DOMAIN calls : PrepareSleepElapsed(c)
    \/ \E c \in DOMAIN calls : CommitSleepElapsed(c)
    \/ \E c \in DOMAIN calls : ViewChangeTimeoutElapsed(c)
    \/ \E c \in DOMAIN calls : TakeResult(c)

Spec == Init /\ [][Next]_vars

\* ---- the start of runPBFTConsensus ----

NotEnoughAccountsMessage(required, available) ==
    "Not enough accounts for PBFT. Need " \o ToString(required)
        \o " validators but only have " \o ToString(available)

\* a check that lets a registry one validator short through
NotEnoughAccountsOffByOne(available, required) == available < required - 1

\* validatorAccounts.length < NUM_VALIDATORS (line 608)
NotEnoughAccounts(available, required) == available < required

\* allAccounts.slice(0, NUM_VALIDATORS).length
SliceLength(available, required) == IF available < required THEN available ELSE required

\* runPBFTConsensus as it is entered: no PBFTConsensus exists, the
\* measurements are empty; the accounts that ethers.getSigners() gives and
\* the configured validator count are any.
DriverInit ==
    \E required \in 1..MaxValidators :
    \E available \in 0..MaxValidators :
    \E p \in FailureProbabilities :
    \E lag \in 0..MaxTimerLag :
        /\ driver = [pc |-> "start", numValidators |-> required,
                     allAccounts |-> available, error |-> ""]
        /\ validators = << >>
        /\ currentView = NULL
        /\ f = NULL
        /\ blockHeight = NULL
        /\ viewChangeInProgress = FALSE
        /\ failureProbability = p
        /\ timerLag = lag
        /\ byzantineEvents = << >>
        /\ networkMessages = << >>
        /\ consensusPhases = << >>
        /\ viewChanges = << >>
        /\ finalityTimes = << >>
        /\ consensusState = << >>
        /\ calls = << >>
        /\ faultConsults = << >>

\* runPBFTConsensus, lines 607-616: the accounts are checked, then the
\* registry is created (new PBFTConsensus, lines 152-163).
StartDriver ==
    /\ driver.pc = "start"
    /\ LET n == SliceLength(driver.allAccounts, driver.numValidators) IN
       IF NotEnoughAccounts(n, driver.numValidators)
       THEN /\ driver' = [driver EXCEPT !.pc = "aborted",
                             !.error = NotEnoughAccountsMessage(driver.numValidators, n)]
            /\ UNCHANGED <<validators, currentView, f, blockHeight, consensusState>>
       ELSE \E byzantineIndices \in SUBSET (0..(n - 1)) :
            \E types \in [byzantineIndices -> FailureTypes] :
               /\ \/ Cardinality(byzantineIndices) <= MaxByzantine
                  \/ AllButPrimaryCrash(n, byzantineIndices, types)
               /\ driver' = [driver EXCEPT !.pc = "running"]
               /\ validators' = SetupValidators(n, byzantineIndices, types)
               /\ currentView' = 0
               /\ f' = MaxTolerableFailures(n)
               /\ blockHeight' = 0
               /\ consensusState' =
                     << RecordConsensusState("initialization",
                           SetupValidators(n, byzantineIndices, types), 0, 0,
                           MaxTolerableFailures(n), FALSE, NoResult) >>
    /\ UNCHANGED <<viewChangeInProgress, failureProbability, timerLag, byzantineEvents,
                   networkMessages, consensusPhases, viewChanges, finalityTimes,
                   calls, faultConsults>>

DriverNext == StartDriver \/ Next

DriverSpec == DriverInit /\ [][DriverNext]_vars

\* ---- a driver that does not await its calls ----

\* runConsensus is called again while earlier calls are suspended at a sleep.
RunConsensusUnawaited ==
    /\ driver.pc = "running"
    /\ blockHeight < MaxRounds
    /\ EnterRunConsensus

InterleavedNext ==
    \/ RunConsensusUnawaited
    \/ \E c \in DOMAIN calls : PrePrepareDelayElapsed(c)
    \/ \E c \in DOMAIN calls : PrePrepareSleepElapsed(c)
    \/ \E c \in DOMAIN calls : PrepareSleepElapsed(c)
    \/ \E c \in DOMAIN calls : CommitSleepElapsed(c)
    \/ \E c \in DOMAIN calls : ViewChangeTimeoutElapsed(c)
    \/ \E c \in DOMAIN calls : TakeResult(c)

\* The registry as setupValidators makes it: BYZANTINE_VALIDATOR_COUNT of the
\* validators are Byzantine (lines 170-174).
InterleavedInit ==
    \E n \in 1..MaxValidators :
    \E byzantineIndices \in SUBSET (0..(n - 1)) :
    \E types \in [byzantineIndices -> FailureTypes] :
    \E p \in FailureProbabilities :
    \E lag \in 0..MaxTimerLag :
        /\ Cardinality(byzantineIndices) = BYZANTINE_VALIDATOR_COUNT
        /\ Construct(n, byzantineIndices, types, p, lag)

InterleavedSpec == InterleavedInit /\ [][InterleavedNext]_vars

\* ---- setupValidators, step by step ----

\* the configured numbers of Byzantine validators explored
MaxByzantineCount == 3

\* a selection loop that runs once more
SelectionContinuesOneMore(size, count) == size <= count

\* while (byzantineIndices.size < BYZANTINE_VALIDATOR_COUNT), line 171
SelectionContinues(size, count) == size < count

\* the values of  Math.floor(Math.random() * accounts.length)  (line 172):
\* 0 for an empty list of accounts
RandomIndices(length) == IF length = 0 THEN {0} ELSE 0..(length - 1)

\* setupValidators as it is entered by the constructor (line 155): the
\* accounts and the configured count are any, the set of indices is empty.
SetupInit ==
    \E accounts \in 0..MaxValidators :
    \E count \in 0..MaxByzantineCount :
    \E p \in FailureProbabilities :
    \E lag \in 0..MaxTimerLag :
        /\ driver = [pc |-> "setupValidators", numValidators |-> accounts,
                     allAccounts |-> accounts, error |-> "",
                     byzantineValidatorCount |-> count, byzantineIndices |-> {}]
        /\ validators = << >>
        /\ currentView = NULL
        /\ f = NULL
        /\ blockHeight = NULL
        /\ viewChangeInProgress = FALSE
        /\ failureProbability = p
        /\ timerLag = lag
        /\ byzantineEvents = << >>
        /\ networkMessages = << >>
        /\ consensusPhases = << >>
        /\ viewChanges = << >>
        /\ finalityTimes = << >>
        /\ consensusState = << >>
        /\ calls = << >>
        /\ faultConsults = << >>

\* One iteration of the selection loop, lines 171-174: adding an index the
\* set already holds changes nothing.
SelectByzantineIndex ==
    /\ driver.pc = "setupValidators"
    /\ SelectionContinues(Cardinality(driver.byzantineIndices),
                          driver.byzantineValidatorCount)
    /\ \E randomIndex \in RandomIndices(driver.allAccounts) :
          driver' = [driver EXCEPT !.byzantineIndices = @ \cup {randomIndex}]
    /\ UNCHANGED <<validators, currentView, f, blockHeight, viewChangeInProgress,
                   failureProbability, timerLag, byzantineEvents, networkMessages,
                   consensusPhases, viewChanges, finalityTimes, consensusState,
                   calls, faultConsults>>

\* The loop is left: accounts.map (lines 176-179), each Byzantine validator
\* drawing its type (lines 73-74), and the rest of the constructor (lines 156-162).
CreateValidators ==
    /\ driver.pc = "setupValidators"
    /\ ~SelectionContinues(Cardinality(driver.byzantineIndices),
                           driver.byzantineValidatorCount)
    /\ LET n == driver.allAccounts
           flagged == driver.byzantineIndices \cap (0..(n - 1))
       IN  \E types \in [flagged -> FailureTypes] :
              /\ validators' = SetupValidators(n, flagged, types)
              /\ f' = MaxTolerableFailures(n)
              /\ consensusState' =
                    << RecordConsensusState("initialization",
                          SetupValidators(n, flagged, types), 0, 0,
                          MaxTolerableFailures(n), FALSE, NoResult) >>
    /\ currentView' = 0
    /\ blockHeight' = 0
    /\ driver' = [driver EXCEPT !.pc = "running"]
    /\ UNCHANGED <<viewChangeInProgress, failureProbability, timerLag, byzantineEvents,
                   networkMessages, consensusPhases, viewChanges, finalityTimes,
                   calls, faultConsults>>

SetupNext == SelectByzantineIndex \/ CreateValidators

\* The loop keeps running, and an index the set lacks is drawn in the end.
SetupSpec == SetupInit /\ [][SetupNext]_vars /\ WF_vars(SetupNext)

\* Every timer fires and the driver's loop runs on: a step that can be taken
\* is taken.
FairSpec == Spec /\ WF_vars(Next)

\* ======================== properties ========================

Returned(c) == calls[c].pc \in {"returned", "done"}

Committed(c) == Returned(c) /\ calls[c].consensusResult.success

Failed(c) == Returned(c) /\ ~calls[c].consensusResult.success

PhaseRecords(height) == SelectSeq(consensusPhases, LAMBDA r : r.blockHeight = height)

\* C1: a round returned with success = true ran pre-prepare, prepare and
\* commit in this order, and its prepare and its commit participant counts
\* were both at least 2f+1.
C1_CommittedOnlyWithQuorums ==
    \A c \in DOMAIN calls :
        Committed(c) =>
            LET records == PhaseRecords(calls[c].consensusResult.blockHeight) IN
            /\ Len(records) = 3
            /\ records[1].phase = "pre-prepare"
            /\ records[2].phase = "prepare"
            /\ records[3].phase = "commit"
            /\ records[2].participantCount >= 2 * f + 1
            /\ records[3].participantCount >= 2 * f + 1
            /\ calls[c].prepareCount = records[2].participantCount
            /\ calls[c].commitCount = records[3].participantCount

\* a committed round in which a validator crashed in commit
C1_Witness ==
    \E c \in DOMAIN calls :
        /\ Committed(c)
        /\ N = NUM_VALIDATORS
        /\ calls[c].commitCount = 2 * f + 1
        /\ \E k \in DOMAIN byzantineEvents :
              /\ byzantineEvents[k].phase = "commit"
              /\ byzantineEvents[k].failureType = "crash"
              /\ byzantineEvents[k].blockHeight = calls[c].consensusResult.blockHeight

\* C2 (as claimed): with failure probability 0, every round of every
\* validator count N >= 1 commits, with a total latency of exactly the sum of
\* the three configured phase durations.
C2_NoFaultsAlwaysCommits ==
    failureProbability = 0 =>
        \A c \in DOMAIN calls :
            Returned(c) =>
                /\ calls[c].consensusResult.success
                /\ calls[c].consensusResult.totalTime =
                      PRE_PREPARE_PHASE_TIME + PREPARE_PHASE_TIME + COMMIT_PHASE_TIME

\* C3 (as claimed): every validator count N gives N = 3f+1 and 2f+1 <= N.
C3_ExactlyThreeFPlusOne == N = 3 * f + 1 /\ 2 * f + 1 <= N

\* C3 (amended): f = floor((N-1)/3) gives 3f+1 <= N <= 3f+3 and 2f+1 <= N;
\* N = 3f+1 holds exactly when N mod 3 = 1.
C3_FaultBound ==
    /\ 3 * f + 1 <= N
    /\ N <= 3 * f + 3
    /\ 2 * f + 1 <= N
    /\ (N = 3 * f + 1) <=> (N % 3 = 1)
    /\ \A k \in DOMAIN consensusState : consensusState[k].f = f

\* a registry of three validators, which tolerates no failure
C3_Witness == N = 3 /\ f = 0 /\ consensusState[1].eventType = "initialization"

\* C4: the primary is validators[view mod N]: proposals are credited to
\* validators[view mod N] of the view they were made in, the primary of a
\* committed result and of every recorded consensus state is
\* validators[view mod N], and the newPrimary of every view-change record is
\* validators[newView mod N], newView being the view then current.
C4_PrimaryIsViewModN ==
    /\ \A i \in 1..N :
          validators[i].blocksProposed =
             Cardinality({k \in DOMAIN networkMessages :
                             /\ networkMessages[k].phase = "pre-prepare"
                             /\ networkMessages[k].view % N = i - 1})
    /\ \A c \in DOMAIN calls :
          Committed(c) =>
             calls[c].consensusResult.primary =
                validators[(calls[c].consensusResult.view % N) + 1].address
    /\ \A k \in DOMAIN consensusState :
          consensusState[k].primary = validators[(consensusState[k].view % N) + 1].address
    /\ \A k \in DOMAIN viewChanges :
          viewChanges[k].newPrimary = validators[(viewChanges[k].newView % N) + 1].address
    /\ (viewChanges # << >> /\ ~viewChangeInProgress) =>
          viewChanges[Len(viewChanges)].newView = currentView

\* a round committed under the second validator, made primary by a view change
C4_Witness ==
    /\ N >= 2
    /\ Len(viewChanges) = 1
    /\ viewChanges[1].newPrimary = Addresses[2]
    /\ \E c \in DOMAIN calls :
          Committed(c) /\ calls[c].consensusResult.primary = Addresses[2]
    /\ validators[2].blocksProposed = 1

\* C5: the view starts at 0, never decreases, and changes only at the start
\* of a view change, by exactly 1; every view-change record has
\* newView = oldView + 1.
C5_MonotonicView ==
    /\ currentView = 0
    /\ [][ /\ currentView' >= currentView
           /\ currentView' # currentView =>
                 /\ currentView' = currentView + 1
                 /\ ~viewChangeInProgress
                 /\ viewChangeInProgress'
                 /\ \E c \in DOMAIN calls' :
                       /\ calls'[c].pc = "viewChangeSleep"
                       /\ calls'[c].oldView = currentView ]_vars
    /\ [](\A k \in DOMAIN viewChanges :
             viewChanges[k].newView = viewChanges[k].oldView + 1)

\* two view changes have taken the view from 0 to 2
C5_Witness ==
    /\ currentView = 2
    /\ Len(viewChanges) = 2
    /\ viewChanges[1].oldView = 0
    /\ viewChanges[2].newView = 2

CompletedRounds == SelectSeq(consensusState, LAMBDA e : e.eventType = "consensus_complete")

\* C6: the height is the number of work items submitted to runConsensus, 0
\* at the start and one more with each of them; the k-th work item gets
\* height k in its result and its round summary, whether it commits or fails.
C6_HeightPerWorkItem ==
    /\ blockHeight = Len(calls)
    /\ \A c \in DOMAIN calls :
          Returned(c) => calls[c].consensusResult.blockHeight = c
    /\ \A k \in DOMAIN CompletedRounds :
          /\ CompletedRounds[k].blockHeight = k
          /\ CompletedRounds[k].result.blockHeight = k
    /\ Len(CompletedRounds) = Cardinality({c \in DOMAIN calls : Returned(c)})

\* a failed first round and a committed second round
C6_Witness ==
    /\ Len(calls) = 2
    /\ Failed(1) /\ calls[1].consensusResult.blockHeight = 1
    /\ Committed(2) /\ calls[2].consensusResult.blockHeight = 2

\* C7: a prepare (commit) phase whose quorum was evaluated completed, its
\* duration entered in the round's timings, if and only if its participant
\* count was at least 2f+1; it threw its insufficient-messages error if and
\* only if the count was below 2f+1.
C7_QuorumDecision ==
    \A c \in DOMAIN calls :
        LET call == calls[c]
            prepareEvaluated == call.prepareCount # NULL /\ call.pc # "prepareSleep"
            commitEvaluated == call.commitCount # NULL /\ call.pc # "commitSleep"
        IN  /\ prepareEvaluated =>
                  /\ call.phaseTimings.prepare # NULL <=> call.prepareCount >= 2 * f + 1
                  /\ call.error = InsufficientMessage("prepare", call.prepareCount, 2 * f + 1)
                        <=> call.prepareCount < 2 * f + 1
                  /\ call.phaseTimings.prepare # NULL => call.commitCount # NULL
            /\ commitEvaluated =>
                  /\ call.phaseTimings.commit # NULL <=> call.commitCount >= 2 * f + 1
                  /\ call.error = InsufficientMessage("commit", call.commitCount, 2 * f + 1)
                        <=> call.commitCount < 2 * f + 1
                  /\ call.phaseTimings.commit # NULL => Committed(c)

\* with f = 0, a round committed on exactly one prepare and one commit
C7_Witness ==
    /\ f = 0
    /\ \E c \in DOMAIN calls :
          Committed(c) /\ calls[c].prepareCount = 1 /\ calls[c].commitCount = 1

CrashCount(height, phase) ==
    Cardinality({k \in DOMAIN byzantineEvents :
                    /\ byzantineEvents[k].blockHeight = height
                    /\ byzantineEvents[k].phase = phase
                    /\ byzantineEvents[k].failureType = "crash"})

\* C8: a prepare or commit phase in which more than N - (2f+1) validators
\* crash is not agreed, and its round ends failed with that phase's
\* insufficient-messages error.
C8_ExcessCrashesFail ==
    \A c \in DOMAIN calls :
        Returned(c) =>
            LET height == calls[c].consensusResult.blockHeight
                prepareCrashes == CrashCount(height, "prepare")
                commitCrashes == CrashCount(height, "commit")
            IN  /\ prepareCrashes > N - (2 * f + 1) =>
                      /\ ~calls[c].consensusResult.success
                      /\ calls[c].consensusResult.error =
                            InsufficientMessage("prepare", N - 1 - prepareCrashes, 2 * f + 1)
                /\ commitCrashes > N - (2 * f + 1) =>
                      /\ ~calls[c].consensusResult.success
                      /\ calls[c].consensusResult.error =
                            InsufficientMessage("commit", N - commitCrashes, 2 * f + 1)

\* four validators, two of which crashed in one commit phase
C8_Witness ==
    /\ N = NUM_VALIDATORS
    /\ \E c \in DOMAIN calls :
          /\ Failed(c)
          /\ CrashCount(calls[c].consensusResult.blockHeight, "commit") = 2

PrimaryCrashHeights ==
    {byzantineEvents[k].blockHeight :
        k \in {j \in DOMAIN byzantineEvents :
                  /\ byzantineEvents[j].phase = "pre-prepare"
                  /\ byzantineEvents[j].failureType = "crash"}}

\* C9: a round whose primary crashes in pre-prepare fails at once with the
\* primary-crash error: it leaves no phase record and no network message, no
\* validator is consulted for a prepare or commit phase of it and only the
\* primary for its pre-prepare, and no proposal, prepare-sent or commit-sent
\* counter changes during it.
C9_PrimaryCrashAborts ==
    /\ [](\A h \in PrimaryCrashHeights :
             /\ h \in DOMAIN calls
             /\ calls[h].pc \in {"viewChangeSleep", "returned", "done"}
             /\ calls[h].error = PrimaryCrashedMessage
             /\ Returned(h) => ~calls[h].consensusResult.success
             /\ \A k \in DOMAIN consensusPhases : consensusPhases[k].blockHeight # h
             /\ \A k \in DOMAIN networkMessages : networkMessages[k].blockHeight # h
             /\ \A k \in DOMAIN faultConsults :
                   faultConsults[k].blockHeight = h =>
                      \/ faultConsults[k].phase = "view-change"
                      \/ /\ faultConsults[k].phase = "pre-prepare"
                         /\ faultConsults[k].validatorIndex = faultConsults[k].view % N)
    /\ [][ blockHeight' \in PrimaryCrashHeights' =>
              \A i \in 1..N :
                 /\ validators'[i].blocksProposed = validators[i].blocksProposed
                 /\ validators'[i].preparesSent = validators[i].preparesSent
                 /\ validators'[i].commitsSent = validators[i].commitsSent ]_vars

\* a returned round whose primary crashed while another Byzantine validator
\* was there to be consulted
C9_Witness ==
    /\ 1 \in PrimaryCrashHeights
    /\ Failed(1)
    /\ \E i \in 1..N : validators[i].isByzantine /\ i # 1

\* C10: with N = 4, f = 1 and the primary crashing in the pre-prepare of
\* the first round, the returned result is a failure with the primary-crash
\* reason, and the view change to view 1 with newPrimary = validators[1] is
\* on record when the result is returned.
C10_ScenarioB ==
    (/\ N = 4
     /\ calls # << >>
     /\ Returned(1)
     /\ 1 \in PrimaryCrashHeights) =>
        /\ f = 1
        /\ ~calls[1].consensusResult.success
        /\ calls[1].consensusResult.error = "Primary crashed during pre-prepare phase"
        /\ viewChanges # << >>
        /\ viewChanges[1].oldView = 0
        /\ viewChanges[1].newView = 1
        /\ viewChanges[1].newPrimary = validators[2].address
        /\ viewChanges[1].reason = "Primary crashed during pre-prepare phase"
        /\ calls[1].pc = "returned" =>
              currentView = 1 /\ ~viewChangeInProgress /\ Len(viewChanges) = 1

\* the first round of the script's four validators just returned after its
\* primary crashed
C10_Witness ==
    /\ ScriptConfiguration
    /\ calls # << >>
    /\ calls[1].pc = "returned"
    /\ 1 \in PrimaryCrashHeights
    /\ validators[1].byzantineType = "crash"

\* C11: a round whose prepare (commit) count stayed below 2f+1 fails with
\* the reason "Insufficient prepare (commit) messages: X/required", X the
\* count and required = 2f+1; with N = 4 and the three non-primary
\* validators crashing in prepare, X = 0, required = 3 and the reason is
\* "Insufficient prepare messages: 0/3".
C11_InsufficientReason ==
    \A c \in DOMAIN calls :
        Returned(c) =>
            LET call == calls[c]
                result == call.consensusResult
            IN  /\ (call.prepareCount # NULL /\ call.prepareCount < 2 * f + 1) =>
                      /\ ~result.success
                      /\ result.error = "Insufficient prepare messages: "
                             \o ToString(call.prepareCount) \o "/" \o ToString(2 * f + 1)
                /\ (call.commitCount # NULL /\ call.commitCount < 2 * f + 1) =>
                      /\ ~result.success
                      /\ result.error = "Insufficient commit messages: "
                             \o ToString(call.commitCount) \o "/" \o ToString(2 * f + 1)
                /\ (N = 4 /\ CrashCount(result.blockHeight, "prepare") = 3) =>
                      /\ f = 1
                      /\ call.prepareCount = 0
                      /\ ~result.success
                      /\ result.error = "Insufficient prepare messages: 0/3"

\* the first round of four validators returned after validators 1, 2 and 3
\* crashed in its prepare phase
C11_Witness ==
    /\ N = 4
    /\ calls # << >>
    /\ Returned(1)
    /\ CrashCount(1, "prepare") = 3
    /\ calls[1].consensusResult.error = "Insufficient prepare messages: 0/3"

\* the calls whose catch started a view change
ViewChangers == {c \in DOMAIN calls : calls[c].oldView # NULL}

\* C12: every failed round, whichever phase failed it, started exactly one
\* view change (none was in flight), and when runConsensus returns the failed
\* result that view change is complete: the view is one more than before,
\* its record is the last of viewChanges and the in-progress flag is clear.
C12_FailedRoundChangesView ==
    /\ \A c \in DOMAIN calls :
          /\ Failed(c) => c \in ViewChangers
          /\ c \in ViewChangers => calls[c].error # "" /\ calls[c].pc # "commitSleep"
          /\ (Failed(c) /\ calls[c].pc = "returned") =>
                /\ ~viewChangeInProgress
                /\ currentView = calls[c].oldView + 1
                /\ viewChanges # << >>
                /\ viewChanges[Len(viewChanges)].oldView = calls[c].oldView
                /\ viewChanges[Len(viewChanges)].newView = currentView
                /\ viewChanges[Len(viewChanges)].reason = calls[c].consensusResult.error
    /\ currentView = Cardinality(ViewChangers)
    /\ Len(viewChanges) = Cardinality({c \in DOMAIN calls : Failed(c)})
    /\ viewChangeInProgress <=> \E c \in DOMAIN calls : calls[c].pc = "viewChangeSleep"

\* the second round just returned failed from its commit phase, after a
\* first round that failed too
C12_Witness ==
    /\ Len(calls) = 2
    /\ Failed(1)
    /\ calls[2].pc = "returned"
    /\ Failed(2)
    /\ calls[2].commitCount # NULL
    /\ Len(viewChanges) = 2

\* the view-change records that left from a view
RecordsFromView(view) == {k \in DOMAIN viewChanges : viewChanges[k].oldView = view}

\* C13: a view change that gathered fewer than 2f+1 view-change messages
\* completes all the same: exactly one record is appended for it, with
\* newView = oldView + 1 and newPrimary = validators[newView mod N]; the
\* round returns its own phase error, nothing else is raised; at the return
\* the flag is clear and the view has moved by exactly 1.
C13_ViewChangeWithoutQuorum ==
    \A c \in ViewChangers :
        (Returned(c) /\ calls[c].viewChangeMsgCount < 2 * f + 1) =>
            LET call == calls[c] IN
            /\ Cardinality(RecordsFromView(call.oldView)) = 1
            /\ \A k \in RecordsFromView(call.oldView) :
                  /\ viewChanges[k].newView = call.oldView + 1
                  /\ viewChanges[k].newPrimary =
                        validators[((call.oldView + 1) % N) + 1].address
                  /\ viewChanges[k].messageCount = call.viewChangeMsgCount * N
                  /\ viewChanges[k].reason = call.error
            /\ ~call.consensusResult.success
            /\ call.consensusResult.error = call.error
            /\ \/ call.error = PrimaryCrashedMessage
               \/ call.error = InsufficientMessage("prepare", call.prepareCount, 2 * f + 1)
               \/ call.error = InsufficientMessage("commit", call.commitCount, 2 * f + 1)
            /\ call.pc = "returned" =>
                  /\ ~viewChangeInProgress
                  /\ currentView = call.oldView + 1
                  /\ Len(viewChanges) = currentView

\* with four validators and f = 1, a view change completed on two messages
C13_Witness ==
    /\ N = NUM_VALIDATORS
    /\ f = 1
    /\ \E c \in ViewChangers :
          /\ calls[c].pc = "returned"
          /\ calls[c].viewChangeMsgCount = 2
          /\ Len(viewChanges) = 1

\* C14: whatever rounds fail, the run goes on to its end: every work item
\* is submitted, and every runConsensus call returns a result, success or
\* failure, to the driver.
C14_RoundFailureNotFatal ==
    <>[](/\ Len(calls) = MaxRounds
         /\ \A c \in DOMAIN calls :
               /\ calls[c].pc = "done"
               /\ calls[c].consensusResult # NoResult
               /\ calls[c].consensusResult.blockHeight = c)

\* a second work item was submitted after the first round failed
C14_Witness ==
    /\ Len(calls) = 2
    /\ Failed(1)
    /\ calls[2].pc = "prePrepareSleep"

\* C15 (as claimed): every fault triggered, the view change included,
\* leaves one ByzantineEvent: a validator has as many events as failures.
C15_EveryFaultRecorded ==
    \A i \in 1..N :
        Cardinality({k \in DOMAIN byzantineEvents :
                        byzantineEvents[k].validatorIndex = validators[i].index})
            = validators[i].failures

\* the exhibitsByzantineFailure calls made on a validator in a phase
Consults(v, phase) ==
    {k \in DOMAIN faultConsults :
        faultConsults[k].validatorIndex = v.index /\ faultConsults[k].phase = phase}

\* C16: a validator that is not Byzantine never fails: its failures counter
\* stays 0, no ByzantineEvent names it, and each time the fault model was
\* consulted about it, it took part: it proposed in every pre-prepare it led,
\* and sent its prepare, commit and view-change message.
C16_OnlyByzantineFail ==
    \A i \in 1..N :
        ~validators[i].isByzantine =>
            /\ validators[i].failures = 0
            /\ validators[i].byzantineType = "null"
            /\ \A k \in DOMAIN byzantineEvents :
                  byzantineEvents[k].validatorIndex # validators[i].index
            /\ validators[i].blocksProposed = Cardinality(Consults(validators[i], "pre-prepare"))
            /\ validators[i].preparesSent = Cardinality(Consults(validators[i], "prepare"))
            /\ validators[i].commitsSent = Cardinality(Consults(validators[i], "commit"))
            /\ validators[i].viewChangesSent = Cardinality(Consults(validators[i], "view-change"))

\* an honest validator went through every phase and a view change, always
\* taking part, while a Byzantine one failed
C16_Witness ==
    \E i \in 1..N :
        /\ ~validators[i].isByzantine
        /\ validators[i].blocksProposed >= 1
        /\ validators[i].preparesSent >= 1
        /\ validators[i].commitsSent >= 1
        /\ validators[i].viewChangesSent >= 1
        /\ byzantineEvents # << >>

\* the phases a returned call started, and those it completed
PhasesStarted(c) ==
    1 + (IF calls[c].prepareCount # NULL THEN 1 ELSE 0)
      + (IF calls[c].commitCount # NULL THEN 1 ELSE 0)

PhasesCompleted(c) ==
    (IF calls[c].phaseTimings.prePrepare # NULL THEN 1 ELSE 0)
      + (IF calls[c].phaseTimings.prepare # NULL THEN 1 ELSE 0)
      + (IF calls[c].phaseTimings.commit # NULL THEN 1 ELSE 0)

\* the view a call's phases ran in
RoundView(c) ==
    IF c \in ViewChangers THEN calls[c].oldView ELSE calls[c].consensusResult.view

EventCount(height, phase) ==
    Cardinality({k \in DOMAIN byzantineEvents :
                    /\ byzantineEvents[k].blockHeight = height
                    /\ byzantineEvents[k].phase = phase})

\* C17 (as claimed): every phase a round started, the one that failed it
\* included, has its record in consensusPhases.
C17_RecordPerPhaseAttempt ==
    \A c \in DOMAIN calls :
        Returned(c) => Len(PhaseRecords(c)) = PhasesStarted(c)

\* C17 (amended): consensusPhases holds one record per completed phase, in
\* the order pre-prepare, prepare, commit, with the round's height and view,
\* the phase's duration, message count, participant count and byzantine
\* count; the phase that fails a round leaves no record.
C17_RecordPerCompletedPhase ==
    \A c \in DOMAIN calls :
        Returned(c) =>
            LET records == PhaseRecords(c)
                call == calls[c]
            IN  /\ Len(records) = PhasesCompleted(c)
                /\ Failed(c) => Len(records) = PhasesStarted(c) - 1
                /\ Committed(c) => Len(records) = 3
                /\ \A k \in DOMAIN records :
                      /\ records[k].blockHeight = c
                      /\ records[k].view = RoundView(c)
                /\ Len(records) >= 1 =>
                      /\ records[1].phase = "pre-prepare"
                      /\ records[1].duration = call.phaseTimings.prePrepare
                      /\ records[1].messageCount = N
                      /\ records[1].participantCount = NULL
                      /\ records[1].byzantineCount = 0
                /\ Len(records) >= 2 =>
                      /\ records[2].phase = "prepare"
                      /\ records[2].duration = call.phaseTimings.prepare
                      /\ records[2].messageCount = call.prepareCount * N
                      /\ records[2].participantCount = call.prepareCount
                      /\ records[2].byzantineCount = EventCount(c, "prepare")
                /\ Len(records) >= 3 =>
                      /\ records[3].phase = "commit"
                      /\ records[3].duration = call.phaseTimings.commit
                      /\ records[3].messageCount = call.commitCount * N
                      /\ records[3].participantCount = call.commitCount
                      /\ records[3].byzantineCount = EventCount(c, "commit")

\* a round that failed in its commit phase left the records of its
\* pre-prepare and prepare phases only
C17_Witness ==
    \E c \in DOMAIN calls :
        /\ Failed(c)
        /\ calls[c].commitCount # NULL
        /\ Len(PhaseRecords(c)) = 2
        /\ N = NUM_VALIDATORS

\* the calls whose result the driver has taken, and the committed ones
TakenCalls == {c \in DOMAIN calls : calls[c].pc = "done"}

TakenCommitted == {c \in TakenCalls : calls[c].consensusResult.success}

\* C18: finalityTimes holds exactly one entry per committed round whose
\* result the driver has taken, in the order of the rounds, with that round's
\* work item and finalityTime = its totalTime, the sum of its three phase
\* durations; a failed round has no entry.
C18_FinalityOfCommittedOnly ==
    /\ Len(finalityTimes) = Cardinality(TakenCommitted)
    /\ \A k \in DOMAIN finalityTimes :
          LET c == finalityTimes[k].txHash IN
          /\ c \in TakenCommitted
          /\ Cardinality({j \in TakenCommitted : j <= c}) = k
          /\ finalityTimes[k].finalityTime = calls[c].consensusResult.totalTime
          /\ finalityTimes[k].finalityTime =
                calls[c].phaseTimings.prePrepare + calls[c].phaseTimings.prepare
                    + calls[c].phaseTimings.commit
    /\ \A c \in DOMAIN calls :
          Failed(c) => \A k \in DOMAIN finalityTimes : finalityTimes[k].txHash # c

\* a failed first round and a committed second one, both taken by the
\* driver: the single entry is the second round's
C18_Witness ==
    /\ TakenCalls = {1, 2}
    /\ Failed(1)
    /\ Committed(2)
    /\ Len(finalityTimes) = 1
    /\ finalityTimes[1].txHash = 2

\* C19: when fewer accounts are available than the validator count
\* requires, the run ends with the not-enough-accounts error and nothing
\* else ever happens: no registry and no PBFTConsensus state exist, no round
\* is attempted, every log stays empty; and only such a run ends that way.
C19_TooFewAccountsAbort ==
    /\ driver.allAccounts < driver.numValidators =>
          /\ driver.pc \in {"start", "aborted"}
          /\ validators = << >>
          /\ currentView = NULL /\ f = NULL /\ blockHeight = NULL
          /\ calls = << >>
          /\ consensusState = << >>
          /\ consensusPhases = << >> /\ networkMessages = << >>
          /\ byzantineEvents = << >> /\ viewChanges = << >>
          /\ finalityTimes = << >> /\ faultConsults = << >>
          /\ driver.pc = "aborted" =>
                driver.error = "Not enough accounts for PBFT. Need "
                    \o ToString(driver.numValidators) \o " validators but only have "
                    \o ToString(driver.allAccounts)
    /\ driver.allAccounts >= driver.numValidators =>
          /\ driver.pc \in {"start", "running"}
          /\ driver.error = ""
          /\ driver.pc = "running" => N = driver.numValidators

\* the run was aborted with three accounts for the four validators required
C19_Witness ==
    /\ driver.pc = "aborted"
    /\ driver.numValidators = NUM_VALIDATORS
    /\ driver.allAccounts = 3
    /\ driver.error = "Not enough accounts for PBFT. Need 4 validators but only have 3"

\* the heights whose primary was delayed in pre-prepare
DelayedHeights ==
    {byzantineEvents[k].blockHeight :
        k \in {j \in DOMAIN byzantineEvents :
                  /\ byzantineEvents[j].phase = "pre-prepare"
                  /\ byzantineEvents[j].failureType = "delayed"}}

\* the duration of a phase as a declared quantity: the configured phase
\* time, and for the pre-prepare of a delayed primary its delay too
DeclaredDuration(height, phase) ==
    IF phase = "pre-prepare"
    THEN PRE_PREPARE_PHASE_TIME
            + (IF height \in DelayedHeights THEN VIEW_CHANGE_TIMEOUT \div 2 ELSE 0)
    ELSE IF phase = "prepare" THEN PREPARE_PHASE_TIME
    ELSE COMMIT_PHASE_TIME

\* C20 (as claimed): the metrics are fixed by the fault-model decisions, the
\* durations being the ones computed arithmetically from the configured
\* times: every phase record, total time, finality time and view-change
\* duration equals its declared value, whatever else happens in the run.
C20_MetricsFixedByDecisions ==
    /\ \A k \in DOMAIN consensusPhases :
          consensusPhases[k].duration =
             DeclaredDuration(consensusPhases[k].blockHeight, consensusPhases[k].phase)
    /\ \A k \in DOMAIN viewChanges : viewChanges[k].duration = VIEW_CHANGE_TIMEOUT
    /\ \A c \in DOMAIN calls :
          Committed(c) =>
             calls[c].consensusResult.totalTime =
                DeclaredDuration(c, "pre-prepare") + DeclaredDuration(c, "prepare")
                    + DeclaredDuration(c, "commit")
    /\ \A k \in DOMAIN finalityTimes :
          finalityTimes[k].finalityTime =
             DeclaredDuration(finalityTimes[k].txHash, "pre-prepare")
                + DeclaredDuration(finalityTimes[k].txHash, "prepare")
                + DeclaredDuration(finalityTimes[k].txHash, "commit")

\* the calls that have not returned yet
InFlight == {c \in DOMAIN calls : ~Returned(c)}

\* C21: rounds never overlap: at most one runConsensus call is in flight,
\* every earlier call has returned and been taken by the driver before the
\* next is made, and a view change in progress belongs to the latest call,
\* the only one in flight.
C21_RoundsNeverOverlap ==
    /\ Cardinality(InFlight) <= 1
    /\ \A c \in DOMAIN calls : c < Len(calls) => calls[c].pc = "done"
    /\ InFlight \subseteq {Len(calls)}
    /\ viewChangeInProgress =>
          /\ InFlight = {Len(calls)}
          /\ calls[Len(calls)].pc = "viewChangeSleep"

\* the second round is in its view change, after a first round that failed,
\* changed the view and was taken by the driver
C21_Witness ==
    /\ Len(calls) = 2
    /\ calls[1].pc = "done"
    /\ Failed(1)
    /\ calls[2].pc = "viewChangeSleep"
    /\ viewChangeInProgress
    /\ Len(viewChanges) = 1

\* the crash events recorded for a validator in a phase
Crashes(v, phase) ==
    {k \in DOMAIN byzantineEvents :
        /\ byzantineEvents[k].validatorIndex = v.index
        /\ byzantineEvents[k].phase = phase
        /\ byzantineEvents[k].failureType = "crash"}

\* the fault-model consultations of a phase of a round
ConsultsOf(height, phase) ==
    {k \in DOMAIN faultConsults :
        faultConsults[k].blockHeight = height /\ faultConsults[k].phase = phase}

C23_CommitPhase ==
    /\ \A i \in 1..N :
          validators[i].commitsSent =
             Cardinality(Consults(validators[i], "commit"))
                - Cardinality(Crashes(validators[i], "commit"))
    /\ \A c \in DOMAIN calls :
          calls[c].commitCount # NULL =>
             /\ Cardinality(ConsultsOf(c, "commit")) = N
             /\ \A i \in 1..N :
                   Cardinality(ConsultsOf(c, "commit") \cap Consults(validators[i], "commit")) = 1
             /\ \E k \in ConsultsOf(c, "commit") :
                   faultConsults[k].validatorIndex = faultConsults[k].view % N
             /\ calls[c].commitCount = N - CrashCount(c, "commit")
             /\ calls[c].pc # "commitSleep" =>
                   (Committed(c) <=> N - CrashCount(c, "commit") >= 2 * f + 1)

\* four validators, the primary of view 1 among the Byzantine ones: it
\* crashed in the commit phase of a round it led, which still committed
C23_Witness ==
    /\ N = NUM_VALIDATORS
    /\ \E c \in DOMAIN calls :
          /\ Committed(c)
          /\ calls[c].consensusResult.view = 1
          /\ calls[c].commitCount = 3
          /\ \E k \in Crashes(validators[2], "commit") : byzantineEvents[k].blockHeight = c

\* the heights at which the primary was malicious in pre-prepare
MaliciousPrimaryHeights ==
    {byzantineEvents[k].blockHeight :
        k \in {j \in DOMAIN byzantineEvents :
                  /\ byzantineEvents[j].phase = "pre-prepare"
                  /\ byzantineEvents[j].failureType = "malicious"}}

\* C24: a malicious validator is never left out of a count: it has sent a
\* prepare, a commit and a view-change message each time it was evaluated
\* for one, and proposed each time it was evaluated as primary; a round
\* whose primary was malicious got its proposal (N pre-prepare messages) and
\* went on to the prepare phase, and every count is N (or N-1) minus the
\* crashes alone.
C24_MaliciousStillCounted ==
    /\ \A i \in 1..N :
          validators[i].byzantineType = "malicious" =>
             /\ validators[i].preparesSent = Cardinality(Consults(validators[i], "prepare"))
             /\ validators[i].commitsSent = Cardinality(Consults(validators[i], "commit"))
             /\ validators[i].viewChangesSent =
                   Cardinality(Consults(validators[i], "view-change"))
             /\ validators[i].blocksProposed =
                   Cardinality(Consults(validators[i], "pre-prepare"))
    /\ \A h \in MaliciousPrimaryHeights :
          /\ calls[h].pc # "viewChangeSleep" \/ calls[h].prepareCount # NULL
          /\ calls[h].error # PrimaryCrashedMessage
          /\ \E k \in DOMAIN networkMessages :
                /\ networkMessages[k].blockHeight = h
                /\ networkMessages[k].phase = "pre-prepare"
                /\ networkMessages[k].messageCount = N
          /\ calls[h].pc # "prePrepareSleep" => calls[h].prepareCount # NULL
    /\ \A c \in DOMAIN calls :
          /\ calls[c].prepareCount # NULL =>
                calls[c].prepareCount = (N - 1) - CrashCount(c, "prepare")
          /\ calls[c].commitCount # NULL =>
                calls[c].commitCount = N - CrashCount(c, "commit")
          /\ calls[c].viewChangeMsgCount # NULL =>
                calls[c].viewChangeMsgCount <= N

\* a round led by a malicious primary committed with every validator
\* counted, the primary being malicious again in the commit phase
C24_Witness ==
    \E h \in MaliciousPrimaryHeights :
        /\ Committed(h)
        /\ calls[h].commitCount = N
        /\ \E k \in DOMAIN byzantineEvents :
              /\ byzantineEvents[k].blockHeight = h
              /\ byzantineEvents[k].phase = "commit"
              /\ byzantineEvents[k].failureType = "malicious"
              /\ byzantineEvents[k].validatorIndex = calls[h].consensusResult.view % N

\* whether a validator was delayed in a phase of a round
DelayedIn(height, phase) ==
    \E k \in DOMAIN byzantineEvents :
        /\ byzantineEvents[k].blockHeight = height
        /\ byzantineEvents[k].phase = phase
        /\ byzantineEvents[k].failureType = "delayed"

\* the time the sleep of a phase takes by itself
PhaseSleep(phase) ==
    IF phase = "pre-prepare" THEN Sleep(PRE_PREPARE_PHASE_TIME)
    ELSE IF phase = "prepare" THEN Sleep(PREPARE_PHASE_TIME)
    ELSE Sleep(COMMIT_PHASE_TIME)

\* C25 (as claimed): in every phase, pre-prepare, prepare and commit, a
\* delayed validator adds latency to the phase: the recorded duration of a
\* phase in which a validator was delayed exceeds the time of the phase's
\* own sleep; a committed round's total is the sum of its three durations.
C25_DelayAddsLatency ==
    /\ \A k \in DOMAIN consensusPhases :
          DelayedIn(consensusPhases[k].blockHeight, consensusPhases[k].phase) =>
             consensusPhases[k].duration > PhaseSleep(consensusPhases[k].phase)
    /\ \A c \in DOMAIN calls :
          Committed(c) =>
             calls[c].consensusResult.totalTime =
                calls[c].phaseTimings.prePrepare + calls[c].phaseTimings.prepare
                   + calls[c].phaseTimings.commit

\* C26 (as claimed): every recorded phase duration is the configured one:
\* the pre-prepare duration is PRE_PREPARE_PHASE_TIME, plus the delay
\* penalty exactly when the primary was delayed, and the prepare and commit
\* durations are PREPARE_PHASE_TIME and COMMIT_PHASE_TIME whatever faults
\* occurred in them.
C26_DurationsFixedByConfiguration ==
    \A k \in DOMAIN consensusPhases :
        LET r == consensusPhases[k] IN
        /\ r.phase = "pre-prepare" =>
              r.duration = PRE_PREPARE_PHASE_TIME
                  + (IF DelayedIn(r.blockHeight, "pre-prepare")
                     THEN VIEW_CHANGE_TIMEOUT \div 2 ELSE 0)
        /\ r.phase = "prepare" => r.duration = PREPARE_PHASE_TIME
        /\ r.phase = "commit" => r.duration = COMMIT_PHASE_TIME

\* the entries of a log for a phase of a round
NetworkEntries(height, phase) ==
    {k \in DOMAIN networkMessages :
        networkMessages[k].blockHeight = height /\ networkMessages[k].phase = phase}

PhaseEntries(height, phase) ==
    {k \in DOMAIN consensusPhases :
        consensusPhases[k].blockHeight = height /\ consensusPhases[k].phase = phase}

\* C27: a proposal is accounted as N messages of PRE_PREPARE_MESSAGE_SIZE,
\* a prepare or commit phase as participantCount x N messages of
\* VOTE_MESSAGE_SIZE; every networkMessages entry has totalBytes =
\* messageCount x messageSize; a phase has at most one entry in each log,
\* a PhaseRecord only with its networkMessages entry, and both carry the
\* same messageCount.
C27_MessageAccounting ==
    /\ \A k \in DOMAIN networkMessages :
          LET m == networkMessages[k]
              call == calls[m.blockHeight]
          IN  /\ m.totalBytes = m.messageCount * m.messageSize
              /\ m.phase = "pre-prepare" =>
                    m.messageCount = N /\ m.messageSize = 1024
              /\ m.phase = "prepare" =>
                    m.messageCount = call.prepareCount * N /\ m.messageSize = 512
              /\ m.phase = "commit" =>
                    m.messageCount = call.commitCount * N /\ m.messageSize = 512
              /\ Cardinality(NetworkEntries(m.blockHeight, m.phase)) = 1
              /\ m.phase # "pre-prepare" =>
                    Cardinality(PhaseEntries(m.blockHeight, m.phase)) = 1
    /\ \A k \in DOMAIN consensusPhases :
          LET r == consensusPhases[k] IN
          /\ Cardinality(PhaseEntries(r.blockHeight, r.phase)) = 1
          /\ Cardinality(NetworkEntries(r.blockHeight, r.phase)) = 1
          /\ \A j \in NetworkEntries(r.blockHeight, r.phase) :
                networkMessages[j].messageCount = r.messageCount
          /\ r.phase # "pre-prepare" => r.messageCount = r.participantCount * N
    /\ \A i \in 1..N :
          validators[i].blocksProposed =
             Cardinality({k \in DOMAIN networkMessages :
                             /\ networkMessages[k].phase = "pre-prepare"
                             /\ networkMessages[k].view % N = validators[i].index})

\* four validators: a commit phase with three participants was accounted
\* as 12 messages of 512 bytes
C27_Witness ==
    /\ N = NUM_VALIDATORS
    /\ \E k \in DOMAIN networkMessages :
          /\ networkMessages[k].phase = "commit"
          /\ networkMessages[k].messageCount = 12
          /\ networkMessages[k].totalBytes = 6144
          /\ calls[networkMessages[k].blockHeight].commitCount = 3

\* the ByzantineEvents that name a validator
EventsOf(v) ==
    {k \in DOMAIN byzantineEvents : byzantineEvents[k].validatorIndex = v.index}

\* view-change messages sent by validators 1..n, and acknowledgers counted
\* by the view changes of calls 1..c
RECURSIVE ViewChangesSentUpTo(_)
ViewChangesSentUpTo(n) ==
    IF n = 0 THEN 0 ELSE validators[n].viewChangesSent + ViewChangesSentUpTo(n - 1)

RECURSIVE AcknowledgersUpTo(_)
AcknowledgersUpTo(c) ==
    IF c = 0 THEN 0
    ELSE (IF c \in ViewChangers THEN calls[c].viewChangeMsgCount ELSE 0)
            + AcknowledgersUpTo(c - 1)

\* C28: a view change consults every validator once; a validator's
\* view-change-sent counter is the number of view changes it did not crash
\* in (a fault in a view change being one that left no event), the
\* counters add up to the acknowledgers counted; the record of a view change
\* has oldView = the view before, newView = oldView + 1, the failed round's
\* reason, messageCount = acknowledgers x N and newPrimary =
\* validators[newView mod N].
C28_ViewChange ==
    /\ \A c \in ViewChangers :
          /\ Cardinality(ConsultsOf(c, "view-change")) = N
          /\ \A i \in 1..N :
                Cardinality(ConsultsOf(c, "view-change")
                               \cap Consults(validators[i], "view-change")) = 1
          /\ \A k \in ConsultsOf(c, "view-change") :
                faultConsults[k].view = calls[c].oldView + 1
          /\ calls[c].viewChangeMsgCount \in 0..N
    /\ \A i \in 1..N :
          validators[i].viewChangesSent =
             Cardinality(Consults(validators[i], "view-change"))
                - (IF validators[i].byzantineType = "crash"
                   THEN validators[i].failures - Cardinality(EventsOf(validators[i]))
                   ELSE 0)
    /\ ViewChangesSentUpTo(N) = AcknowledgersUpTo(Len(calls))
    /\ \A c \in ViewChangers :
          Returned(c) =>
             \E k \in DOMAIN viewChanges :
                /\ k = calls[c].oldView + 1
                /\ viewChanges[k].oldView = calls[c].oldView
                /\ viewChanges[k].newView = calls[c].oldView + 1
                /\ viewChanges[k].reason = calls[c].consensusResult.error
                /\ viewChanges[k].messageCount = calls[c].viewChangeMsgCount * N
                /\ viewChanges[k].newPrimary =
                      validators[((calls[c].oldView + 1) % N) + 1].address

\* four validators: a view change in which one validator crashed was
\* recorded with the 12 messages of its three acknowledgers
C28_Witness ==
    /\ N = NUM_VALIDATORS
    /\ Len(viewChanges) = 1
    /\ viewChanges[1].messageCount = 12
    /\ \E i \in 1..N : validators[i].viewChangesSent = 0
    /\ ViewChangesSentUpTo(N) = 3

\* the view a round started in: the view its primary was consulted in
StartViews(height) ==
    {faultConsults[k].view : k \in ConsultsOf(height, "pre-prepare")}

\* C29 (as claimed): the result of a round and its round summary carry the
\* view the round started in, whether the round committed or failed.
C29_ResultCarriesStartView ==
    /\ \A c \in DOMAIN calls :
          Returned(c) => StartViews(c) = {calls[c].consensusResult.view}
    /\ \A k \in DOMAIN CompletedRounds :
          StartViews(CompletedRounds[k].blockHeight) = {CompletedRounds[k].view}

\* the validators given a Byzantine profile
ByzantineValidators == {i \in 1..N : validators[i].isByzantine}

\* C30 (as claimed): a registry set up with the configured number of
\* Byzantine validators has at most f = floor((N-1)/3) of them, whatever
\* its validator count N.
C30_ByzantineWithinThreshold ==
    Cardinality(ByzantineValidators) = BYZANTINE_VALIDATOR_COUNT =>
        Cardinality(ByzantineValidators) <= f

\* C31: the membership never changes after the registry is created: every
\* step keeps the length N of the validator sequence, the address, the index,
\* isByzantine and byzantineType of the validator at each position, and f;
\* the index of a validator is its position.
C31_MembershipImmutable ==
    /\ [](\A i \in 1..N : validators[i].index = i - 1 /\ validators[i].address = Addresses[i])
    /\ [][ /\ Len(validators') = Len(validators)
           /\ \A i \in 1..N :
                 /\ validators'[i].address = validators[i].address
                 /\ validators'[i].index = validators[i].index
                 /\ validators'[i].isByzantine = validators[i].isByzantine
                 /\ validators'[i].byzantineType = validators[i].byzantineType
           /\ f' = f ]_vars

\* two rounds and two view changes later, the four validators and the
\* crash profile of the second are those of the creation
C31_Witness ==
    /\ N = NUM_VALIDATORS
    /\ Len(viewChanges) = 2
    /\ \A c \in DOMAIN calls : Returned(c)
    /\ validators[2].byzantineType = "crash"
    /\ validators[2].failures >= 2
    /\ consensusState[1].validatorStates[2].byzantineType = "crash"

FailedRounds == {c \in DOMAIN calls : Failed(c)}

\* C32: the driver awaiting every call, viewChangeInProgress is false each
\* time runConsensus is entered and each time it returns, and every failed
\* round has run its view change; when no call is in flight, currentView =
\* the number of failed rounds = the number of view-change records; the
\* round after a failed round starts under validators[(oldView + 1) mod N].
C32_ViewCountsFailedRounds ==
    /\ [][Len(calls') > Len(calls) => ~viewChangeInProgress]_vars
    /\ [](\A k \in DOMAIN CompletedRounds : ~CompletedRounds[k].viewChangeInProgress)
    /\ [](viewChangeInProgress <=> \E c \in DOMAIN calls : calls[c].pc = "viewChangeSleep")
    /\ [](\A c \in DOMAIN calls :
             /\ calls[c].error # "" => c \in ViewChangers
             /\ Failed(c) => calls[c].oldView # NULL)
    /\ []((\A c \in DOMAIN calls : Returned(c)) =>
             /\ currentView = Cardinality(FailedRounds)
             /\ currentView = Len(viewChanges))
    /\ [](\A c \in DOMAIN calls :
             (Failed(c) /\ c + 1 \in DOMAIN calls) =>
                /\ StartViews(c + 1) = {calls[c].oldView + 1}
                /\ \A k \in ConsultsOf(c + 1, "pre-prepare") :
                      faultConsults[k].validatorIndex = (calls[c].oldView + 1) % N)

\* two failed rounds in a row: the view is 2, and the second round started
\* in view 1 under the second validator
C32_Witness ==
    /\ N >= 3
    /\ Len(calls) = 2 /\ Failed(1) /\ Failed(2)
    /\ currentView = 2 /\ Len(viewChanges) = 2
    /\ StartViews(2) = {1}
    /\ ~viewChangeInProgress

\* the calls inside a view change
ViewChanging == {c \in DOMAIN calls : calls[c].pc = "viewChangeSleep"}

\* the calls that have caught the error of a phase
Caught == {c \in DOMAIN calls : calls[c].error # ""}

\* C33: runConsensus calls interleaved at their sleeps: at most one view
\* change is in flight, and it is the one the flag stands for; a round that
\* fails while the flag is set returns its failure in the same step, the
\* view and the view-change records untouched; the view is the number of
\* view changes started, at most the number of failed rounds.
C33_OneViewChangeInFlight ==
    /\ [](Cardinality(ViewChanging) <= 1)
    /\ [](viewChangeInProgress <=> ViewChanging # {})
    /\ [][ viewChangeInProgress =>
              \A c \in DOMAIN calls' :
                 (c \in Caught' /\ (c \in DOMAIN calls => c \notin Caught)) =>
                    /\ currentView' = currentView
                    /\ viewChanges' = viewChanges
                    /\ viewChangeInProgress'
                    /\ calls'[c].pc = "returned"
                    /\ ~calls'[c].consensusResult.success
                    /\ calls'[c].oldView = NULL ]_vars
    /\ [](currentView = Cardinality(ViewChangers))
    /\ [](currentView = Len(viewChanges) + Cardinality(ViewChanging))
    /\ [](currentView <= Cardinality(Caught))

\* two overlapping rounds have both failed, the second during the view
\* change of the first: the view advanced by 1 only
C33_Witness ==
    /\ Len(calls) = 2
    /\ Failed(1) /\ Failed(2)
    /\ calls[1].oldView = 0
    /\ calls[2].oldView = NULL
    /\ currentView = 1
    /\ Len(viewChanges) = 1

\* the insufficient-messages errors of a phase
InsufficientErrors(kind) ==
    {InsufficientMessage(kind, count, 2 * f + 1) : count \in 0..N}

\* C34: in a registry of N = 3f+1 validators of which at most f have a
\* Byzantine profile, every commit phase counts at least N - f = 2f+1
\* commits and is agreed: no round fails with an insufficient-commit error,
\* and every round that fails does so by the crash of its primary in
\* pre-prepare or by an insufficient-prepare error.
C34_CommitNeverFails ==
    (N = 3 * f + 1 /\ Cardinality(ByzantineValidators) <= f) =>
        \A c \in DOMAIN calls :
            /\ calls[c].commitCount # NULL =>
                  /\ calls[c].commitCount >= N - f
                  /\ N - f = 2 * f + 1
                  /\ CrashCount(c, "commit") <= f
                  /\ calls[c].pc # "commitSleep" => Committed(c)
            /\ calls[c].error \notin InsufficientErrors("commit")
            /\ calls[c].error # "" =>
                  \/ calls[c].error = PrimaryCrashedMessage
                  \/ calls[c].error \in InsufficientErrors("prepare")
            /\ Failed(c) => calls[c].commitCount = NULL

\* four validators, one of them Byzantine of type crash: it crashed in the
\* commit phase of a round that committed on the other three, and made
\* another round fail in prepare
C34_Witness ==
    /\ N = NUM_VALIDATORS /\ f = 1
    /\ Cardinality(ByzantineValidators) = 1
    /\ \E c \in DOMAIN calls :
          /\ Committed(c)
          /\ calls[c].commitCount = 3
          /\ CrashCount(c, "commit") = 1
    /\ \E c \in DOMAIN calls :
          Failed(c) /\ calls[c].error = InsufficientMessage("prepare", 2, 3)

\* the calls whose prepare quorum has been evaluated
PrepareEvaluated ==
    {c \in DOMAIN calls : calls[c].prepareCount # NULL /\ calls[c].pc # "prepareSleep"}

PreparePhasesOf(v) ==
    {c \in DOMAIN calls :
        calls[c].prepareCount # NULL /\ \A w \in StartViews(c) : w % N # v.index}

CommitPhases == {c \in DOMAIN calls : calls[c].commitCount # NULL}

LedRounds(v) ==
    {c \in DOMAIN calls : StartViews(c) = {w \in StartViews(c) : w % N = v.index}}

\* C36: a crash lasts one evaluation: whatever a validator's failures so
\* far, it is consulted in every pre-prepare it leads, in every prepare
\* phase it does not lead, in every commit phase and in every view change;
\* for a validator of type crash each consultation is either a new failure
\* (failures + 1) or a participation (a proposal or a message sent), so
\* that nothing but the draw of the moment keeps it from taking part.
C36_CrashNotPersistent ==
    \A i \in 1..N :
        LET v == validators[i] IN
        /\ Cardinality(Consults(v, "pre-prepare")) = Cardinality(LedRounds(v))
        /\ Cardinality(Consults(v, "prepare")) = Cardinality(PreparePhasesOf(v))
        /\ Cardinality(Consults(v, "commit")) = Cardinality(CommitPhases)
        /\ Cardinality(Consults(v, "view-change")) = Cardinality(ViewChangers)
        /\ v.byzantineType = "crash" =>
              Cardinality(Consults(v, "pre-prepare")) + Cardinality(Consults(v, "prepare"))
                 + Cardinality(Consults(v, "commit")) + Cardinality(Consults(v, "view-change"))
              = v.failures + v.blocksProposed + v.preparesSent + v.commitsSent
                   + v.viewChangesSent

\* two validators: the second, of type crash, crashed in the prepare phase
\* of the first round, which failed; it then sent its view-change message,
\* proposed as primary of the second round and sent its commit
C36_Witness ==
    /\ N = 2
    /\ validators[2].byzantineType = "crash"
    /\ \E k \in Crashes(validators[2], "prepare") : byzantineEvents[k].blockHeight = 1
    /\ Failed(1)
    /\ validators[2].viewChangesSent = 1
    /\ validators[2].blocksProposed = 1
    /\ validators[2].commitsSent = 1

\* prepares and commits sent by validators 1..n, and counted by calls 1..c
RECURSIVE PreparesSentUpTo(_)
PreparesSentUpTo(n) ==
    IF n = 0 THEN 0 ELSE validators[n].preparesSent + PreparesSentUpTo(n - 1)

RECURSIVE CommitsSentUpTo(_)
CommitsSentUpTo(n) ==
    IF n = 0 THEN 0 ELSE validators[n].commitsSent + CommitsSentUpTo(n - 1)

RECURSIVE PrepareCountsUpTo(_)
PrepareCountsUpTo(c) ==
    IF c = 0 THEN 0
    ELSE (IF calls[c].prepareCount # NULL THEN calls[c].prepareCount ELSE 0)
            + PrepareCountsUpTo(c - 1)

RECURSIVE CommitCountsUpTo(_)
CommitCountsUpTo(c) ==
    IF c = 0 THEN 0
    ELSE (IF calls[c].commitCount # NULL THEN calls[c].commitCount ELSE 0)
            + CommitCountsUpTo(c - 1)

\* C37: a failed phase leaves the sent counters it incremented in place and
\* records no messages: the prepare-sent (commit-sent) counters add up to
\* the prepares (commits) counted by all the rounds, the failed ones
\* included, and a validator's counter is the number of its evaluations
\* without a crash; a round failed by its primary's crash has no
\* networkMessages entry, one failed in prepare only its pre-prepare entry,
\* one failed in commit only its pre-prepare and prepare entries.
C37_FailedPhaseKeepsCounters ==
    /\ PreparesSentUpTo(N) = PrepareCountsUpTo(Len(calls))
    /\ CommitsSentUpTo(N) = CommitCountsUpTo(Len(calls))
    /\ \A i \in 1..N :
          /\ validators[i].preparesSent =
                Cardinality(Consults(validators[i], "prepare"))
                   - Cardinality(Crashes(validators[i], "prepare"))
          /\ validators[i].commitsSent =
                Cardinality(Consults(validators[i], "commit"))
                   - Cardinality(Crashes(validators[i], "commit"))
    /\ \A c \in DOMAIN calls :
          /\ calls[c].error = PrimaryCrashedMessage =>
                /\ NetworkEntries(c, "pre-prepare") = {}
                /\ NetworkEntries(c, "prepare") = {}
                /\ NetworkEntries(c, "commit") = {}
          /\ calls[c].error \in InsufficientErrors("prepare") =>
                /\ Cardinality(NetworkEntries(c, "pre-prepare")) = 1
                /\ NetworkEntries(c, "prepare") = {}
                /\ NetworkEntries(c, "commit") = {}
          /\ calls[c].error \in InsufficientErrors("commit") =>
                /\ Cardinality(NetworkEntries(c, "pre-prepare")) = 1
                /\ Cardinality(NetworkEntries(c, "prepare")) = 1
                /\ NetworkEntries(c, "commit") = {}

\* four validators: a round failed in commit with two commits sent, which
\* the two senders keep in their counters; the log has no commit entry
C37_Witness ==
    /\ N = NUM_VALIDATORS
    /\ Len(calls) = 1 /\ Failed(1)
    /\ calls[1].error = InsufficientMessage("commit", 2, 3)
    /\ CommitsSentUpTo(N) = 2
    /\ PreparesSentUpTo(N) = 3
    /\ NetworkEntries(1, "commit") = {}
    /\ Len(networkMessages) = 2

RECURSIVE BlocksProposedUpTo(_)
BlocksProposedUpTo(n) ==
    IF n = 0 THEN 0 ELSE validators[n].blocksProposed + BlocksProposedUpTo(n - 1)

\* the rounds whose primary did not crash in pre-prepare (a delayed primary
\* proposes when its delay is over)
ProposedRounds ==
    {c \in DOMAIN calls : c \notin PrimaryCrashHeights /\ calls[c].pc # "prePrepareDelay"}

\* C38: a committed round has exactly three PhaseRecords at its height:
\* pre-prepare, prepare, commit, in this order, each with the view of the
\* round's result; the blocksProposed counters add up to the number of
\* rounds whose primary did not crash in pre-prepare, and a validator's
\* counter is the number of those rounds that started in a view v with
\* v mod N = its index.
C38_ThreeRecordsAndProposals ==
    /\ \A c \in DOMAIN calls :
          Committed(c) =>
             LET records == PhaseRecords(calls[c].consensusResult.blockHeight) IN
             /\ Len(records) = 3
             /\ <<records[1].phase, records[2].phase, records[3].phase>>
                   = <<"pre-prepare", "prepare", "commit">>
             /\ \A k \in 1..3 : records[k].view = calls[c].consensusResult.view
    /\ BlocksProposedUpTo(N) = Cardinality(ProposedRounds)
    /\ \A i \in 1..N :
          validators[i].blocksProposed =
             Cardinality({c \in ProposedRounds :
                             \A w \in StartViews(c) : w % N = validators[i].index})

\* a first round that failed in prepare after its primary had proposed,
\* then a round committed in view 1: one proposal each for the first and
\* the second validator, and three records at height 2, all of view 1
C38_Witness ==
    /\ N >= 2
    /\ Len(calls) = 2
    /\ Failed(1) /\ calls[1].prepareCount # NULL
    /\ Committed(2) /\ calls[2].consensusResult.view = 1
    /\ Len(PhaseRecords(2)) = 3
    /\ validators[1].blocksProposed = 1
    /\ validators[2].blocksProposed = 1
    /\ Len(consensusPhases) = 4

\* C40: the engine never writes a received-side counter: preparesReceived,
\* commitsReceived and viewChangesReceived of every validator are 0 in
\* every state; a validator's prepare-sent and commit-sent counters are at
\* most the number of rounds entered, its view-change-sent counter at most
\* the number of view changes started.
C40_ReceivedCountersStayZero ==
    \A i \in 1..N :
        /\ validators[i].preparesReceived = 0
        /\ validators[i].commitsReceived = 0
        /\ validators[i].viewChangesReceived = 0
        /\ validators[i].preparesSent \in 0..blockHeight
        /\ validators[i].commitsSent \in 0..blockHeight
        /\ validators[i].viewChangesSent \in 0..currentView
        /\ validators[i].preparesSent <= Cardinality({c \in DOMAIN calls : calls[c].prepareCount # NULL})
        /\ validators[i].commitsSent <= Cardinality(CommitPhases)
        /\ validators[i].viewChangesSent <= Cardinality(ViewChangers)

\* four validators, two rounds and one view change: the fourth validator
\* sent two prepares, two commits and one view-change message and received
\* nothing
C40_Witness ==
    /\ N = NUM_VALIDATORS
    /\ blockHeight = 2 /\ currentView = 1
    /\ validators[4].preparesSent = 2
    /\ validators[4].commitsSent = 2
    /\ validators[4].viewChangesSent = 1
    /\ validators[4].preparesReceived + validators[4].commitsReceived
          + validators[4].viewChangesReceived = 0

====
